---- MODULE Spec2Model ----
\* Model of lod.py: the generator of a tree of C++ sources (leaf units grouped
\* into static libraries, linked into one executable), of the ninja build plan
\* that reproduces the tree, and of the pipeline generate -> build -> run ->
\* stats that main() executes.
EXTENDS Integers, Sequences, FiniteSets, TLC

\* ------------------------------------------------------------------ bounds
MaxLeaf == 12   \* largest --count-of-leaf-source-files explored
MaxCap  == 3    \* largest --library_object_count explored
NegCap  == 2    \* the capacities explored go down to -NegCap
MaxExit == 1    \* exit statuses of an external tool are 0..MaxExit

VARIABLES
    options,        \* the parsed command line (never changes during a run)
    pc,             \* position of main()
    i,              \* index of the running generation loop
    num_lib_files,  \* local of generate_lib_source_files
    obj_sources,    \* paths returned by generate_obj_source_files
    lib_sources,    \* paths returned by generate_lib_source_files
    main_sources,   \* paths returned by generate_main_source_files
    dirs,           \* directories that exist under the output directory
    files,          \* generated source files: path -> contents
    ninja,          \* lines of build.ninja that matter (<<>>: not written)
    toolLog,        \* external tools run so far, with their exit status
    raised,         \* "" or the exception that ended the run
    exitCode        \* exit status of the process, meaningful at pc = "done"

vars == <<options, pc, i, num_lib_files, obj_sources, lib_sources,
          main_sources, dirs, files, ninja, toolLog, raised, exitCode>>

\* ------------------------------------------------- numbers and formatting
Min(a, b) == IF a < b THEN a ELSE b

RECURSIVE Digits(_)
\* decimal digits of a natural number, most significant first
Digits(n) == IF n < 10 THEN <<n>> ELSE Append(Digits(n \div 10), n % 10)

\* len(str(n)): the minus sign of a negative number counts
StrLen(n) == IF n < 0 THEN 1 + Len(Digits(0 - n)) ELSE Len(Digits(n))

\* f"{n:0{padding}}" for n >= 0: at least padding digits, zeros on the left
ZeroPad(n, padding) ==
    LET d == Digits(n)
    IN  IF Len(d) >= padding THEN d
        ELSE [k \in 1..padding |-> IF k <= padding - Len(d) THEN 0
                                   ELSE d[k - (padding - Len(d))]]

\* math.ceil(a / b) for a >= 0; b = 0 raises and is handled by the callers
CeilDiv(a, b) ==
    IF b > 0 THEN (a + b - 1) \div b
    ELSE 0 - (a \div (0 - b))

\* ------------------------------------------------------ naming and paths
\* variant: the width is taken from the other count option
get_src_name_padding_of_capacity(o) == StrLen(o.library_object_count)

get_src_name_padding(o) == StrLen(o.count_of_leaf_source_files)

get_num_libraries_to_build(o) ==
    CeilDiv(o.count_of_leaf_source_files, o.library_object_count)

get_lib_name_padding(o) == StrLen(get_num_libraries_to_build(o))

AllDirs == {"build", "src", "obj", "lib", "bin"}

\* variant: library and root units are padded to the library width
get_source_file_path_by_kind(o, file_index, prefix) ==
    [dir |-> "src", prefix |-> prefix,
     num |-> ZeroPad(file_index, IF prefix = "src"
                                 THEN get_src_name_padding(o)
                                 ELSE get_lib_name_padding(o)),
     ext |-> "cpp"]

get_source_file_path(o, file_index, prefix) ==
    [dir |-> "src", prefix |-> prefix,
     num |-> ZeroPad(file_index, get_src_name_padding(o)), ext |-> "cpp"]

get_obj_file_path(o, src_file) ==
    [dir |-> "obj", prefix |-> src_file.prefix, num |-> src_file.num,
     ext |-> IF src_file.ext = "cpp" THEN "o" ELSE src_file.ext]

get_lib_file_path(o, lib_index) ==
    [dir |-> "lib", prefix |-> "lib",
     num |-> ZeroPad(lib_index, get_lib_name_padding(o)), ext |-> "a"]

get_main_exe(o) == [dir |-> "bin", prefix |-> "lod", num |-> <<>>, ext |-> ""]

\* variant: the end of the last range is not clamped to the leaf count
get_lib_src_indices_unclamped(o, lib_index) ==
    LET src_start == lib_index * o.library_object_count
        src_end   == src_start + o.library_object_count
    IN  <<src_start, src_end>>

get_lib_src_indices(o, lib_index) ==
    LET src_start == lib_index * o.library_object_count
        src_end   == src_start + o.library_object_count
    IN  <<src_start, Min(src_end, o.count_of_leaf_source_files)>>

\* range(a, b) as a sequence
Range(a, b) == [k \in 1..(IF b > a THEN b - a ELSE 0) |-> a + k - 1]

\* s[a:b] for a, b >= 0
Slice(s, a, b) == SubSeq(s, a + 1, Min(b, Len(s)))

\* ----------------------------------------------------- generated contents
\* A unit is the list of functions it forward-declares, the function it
\* defines and the list of functions that function calls.
FuncName(prefix, num) == [prefix |-> prefix, num |-> num]

obj_source_contents(o, src_index) ==
    [decls   |-> <<>>,
     defines |-> FuncName("src", ZeroPad(src_index, get_src_name_padding(o))),
     calls   |-> <<>>]

\* variant: the leaf names are padded to the library width
lib_source_contents_lib_padding(o, lib_index) ==
    LET lib_padding == get_lib_name_padding(o)
        se    == get_lib_src_indices(o, lib_index)
        srcs  == Range(se[1], se[2])
        names == [k \in 1..Len(srcs) |->
                     FuncName("src", ZeroPad(srcs[k], lib_padding))]
    IN  [decls   |-> names,
         defines |-> FuncName("lib", ZeroPad(lib_index, lib_padding)),
         calls   |-> names]

lib_source_contents(o, lib_index) ==
    LET lib_padding == get_lib_name_padding(o)
        src_padding == get_src_name_padding(o)
        se    == get_lib_src_indices(o, lib_index)
        srcs  == Range(se[1], se[2])
        names == [k \in 1..Len(srcs) |->
                     FuncName("src", ZeroPad(srcs[k], src_padding))]
    IN  [decls   |-> names,
         defines |-> FuncName("lib", ZeroPad(lib_index, lib_padding)),
         calls   |-> names]

main_source_contents(o) ==
    LET padding == get_lib_name_padding(o)
        libs  == Range(0, get_num_libraries_to_build(o))
        names == [k \in 1..Len(libs) |->
                     FuncName("lib", ZeroPad(libs[k], padding))]
    IN  [decls |-> names, defines |-> FuncName("main", <<>>), calls |-> names]

WriteFile(fs, path, contents) ==
    [p \in DOMAIN fs \cup {path} |-> IF p = path THEN contents ELSE fs[p]]

\* ------------------------------------------------------------- build plan
\* variant: the library's own unit is left out of its archive
split_object_files_without_lib_unit(o, obj_src, lib_src) ==
    LET idx == Range(0, get_num_libraries_to_build(o))
    IN  [k \in 1..Len(idx) |->
            LET se == get_lib_src_indices(o, idx[k])
            IN  [lib_name    |-> get_lib_file_path(o, idx[k]),
                 lib_sources |-> Slice(obj_src, se[1], se[2])]]

split_object_files_into_libraries(o, obj_src, lib_src) ==
    LET idx == Range(0, get_num_libraries_to_build(o))
    IN  [k \in 1..Len(idx) |->
            LET se == get_lib_src_indices(o, idx[k])
            IN  [lib_name    |-> get_lib_file_path(o, idx[k]),
                 lib_sources |-> Slice(obj_src, se[1], se[2])
                                 \o <<lib_src[idx[k] + 1]>>]]

BuildEdge(rule, out, ins) ==
    [kind |-> "build", rule |-> rule, out |-> out, ins |-> ins]

\* variant: the last source (the root unit) gets no compile edge
cc_edges_without_last(o, all_src) ==
    [k \in 1..(Len(all_src) - 1) |->
        BuildEdge("cc", get_obj_file_path(o, all_src[k]), <<all_src[k]>>)]

\* "Build object files": one cc edge per source, in the order given
cc_edges(o, all_src) ==
    [k \in 1..Len(all_src) |->
        BuildEdge("cc", get_obj_file_path(o, all_src[k]), <<all_src[k]>>)]

\* "Build libraries": one archive edge per entry of libraries
archive_edges(o, libraries) ==
    [k \in 1..Len(libraries) |->
        BuildEdge("archive", libraries[k].lib_name,
            [m \in 1..Len(libraries[k].lib_sources) |->
                get_obj_file_path(o, libraries[k].lib_sources[m])])]

\* variant: the libraries come before the root object on the link line
link_edge_libraries_first(o, main_src, libraries) ==
    LET main_obj_files == [k \in 1..Len(main_src) |->
                             get_obj_file_path(o, main_src[k])]
        main_lib_files == [k \in 1..Len(libraries) |-> libraries[k].lib_name]
    IN  BuildEdge("link", get_main_exe(o), main_lib_files \o main_obj_files)

\* "Build main executable"
link_edge(o, main_src, libraries) ==
    LET main_obj_files == [k \in 1..Len(main_src) |->
                             get_obj_file_path(o, main_src[k])]
        main_lib_files == [k \in 1..Len(libraries) |-> libraries[k].lib_name]
        main_link_inputs == main_obj_files \o main_lib_files
    IN  BuildEdge("link", get_main_exe(o), main_link_inputs)

default_target(o) ==
    [kind |-> "default", rule |-> "", out |-> get_main_exe(o), ins |-> <<>>]

ninja_file_contents(o, obj_src, lib_src, main_src) ==
    LET libraries == split_object_files_into_libraries(o, obj_src, lib_src)
    IN  cc_edges(o, obj_src \o lib_src \o main_src)
        \o archive_edges(o, libraries)
        \o <<link_edge(o, main_src, libraries)>>
        \o <<default_target(o)>>

\* ------------------------------------------------------------ the pipeline
Capacities == (0 - NegCap)..MaxCap
RunChoices == {{}, {"gdb"}, {"lldb"}, {"gdb", "lldb"}}

Init ==
    /\ options \in [count_of_leaf_source_files : 0..MaxLeaf,
                    library_object_count : Capacities,
                    generate : BOOLEAN, build : BOOLEAN,
                    run : RunChoices, stats : BOOLEAN]
    /\ pc = "main"
    /\ i = 0
    /\ num_lib_files = 0
    /\ obj_sources = <<>>
    /\ lib_sources = <<>>
    /\ main_sources = <<>>
    /\ dirs = {}
    /\ files = <<>>
    /\ ninja = <<>>
    /\ toolLog = <<>>
    /\ raised = ""
    /\ exitCode = 0

\* an uncaught exception ends the process with a non-zero status
Raise(exc) ==
    /\ pc' = "done"
    /\ raised' = exc
    /\ exitCode' = 1

\* main: options.generate is set; create_output_dirs, then
\* generate_obj_source_files starts its loop
create_output_dirs ==
    /\ pc = "main"
    /\ options.generate
    /\ dirs' = AllDirs
    /\ i' = 0
    /\ obj_sources' = <<>>
    /\ pc' = "gen_obj"
    /\ UNCHANGED <<options, num_lib_files, lib_sources, main_sources, files,
                   ninja, toolLog, raised, exitCode>>

\* main: --skip-generate
skip_generate ==
    /\ pc = "main"
    /\ ~options.generate
    /\ pc' = "build"
    /\ UNCHANGED <<options, i, num_lib_files, obj_sources, lib_sources,
                   main_sources, dirs, files, ninja, toolLog, raised, exitCode>>

\* one iteration of the loop of generate_obj_source_files
generate_obj_source_file ==
    /\ pc = "gen_obj"
    /\ i < options.count_of_leaf_source_files
    /\ LET source_path == get_source_file_path(options, i, "src")
       IN  /\ files' = WriteFile(files, source_path,
                                 obj_source_contents(options, i))
           /\ obj_sources' = Append(obj_sources, source_path)
    /\ i' = i + 1
    /\ UNCHANGED <<options, pc, num_lib_files, lib_sources, main_sources,
                   dirs, ninja, toolLog, raised, exitCode>>

\* generate_obj_source_files returns; generate_lib_source_files computes the
\* number of libraries (which divides by the capacity) and starts its loop
generate_lib_source_files ==
    /\ pc = "gen_obj"
    /\ ~(i < options.count_of_leaf_source_files)
    /\ IF options.library_object_count = 0
       THEN /\ Raise("ZeroDivisionError")
            /\ UNCHANGED <<i, num_lib_files, lib_sources>>
       ELSE /\ num_lib_files' = get_num_libraries_to_build(options)
            /\ lib_sources' = <<>>
            /\ i' = 0
            /\ pc' = "gen_lib"
            /\ UNCHANGED <<raised, exitCode>>
    /\ UNCHANGED <<options, obj_sources, main_sources, dirs, files, ninja,
                   toolLog>>

\* one iteration of the loop of generate_lib_source_files
generate_lib_source_file ==
    /\ pc = "gen_lib"
    /\ i < num_lib_files
    /\ LET source_path == get_source_file_path(options, i, "lib")
       IN  /\ files' = WriteFile(files, source_path,
                                 lib_source_contents(options, i))
           /\ lib_sources' = Append(lib_sources, source_path)
    /\ i' = i + 1
    /\ UNCHANGED <<options, pc, num_lib_files, obj_sources, main_sources,
                   dirs, ninja, toolLog, raised, exitCode>>

\* generate_lib_source_files returns; generate_main_source_files writes the
\* root unit
generate_main_source_file ==
    /\ pc = "gen_lib"
    /\ ~(i < num_lib_files)
    /\ LET source_path == get_source_file_path(options, 0, "main")
       IN  /\ files' = WriteFile(files, source_path,
                                 main_source_contents(options))
           /\ main_sources' = <<source_path>>
    /\ pc' = "ninja"
    /\ UNCHANGED <<options, i, num_lib_files, obj_sources, lib_sources, dirs,
                   ninja, toolLog, raised, exitCode>>

generate_ninja_file ==
    /\ pc = "ninja"
    /\ ninja' = ninja_file_contents(options, obj_sources, lib_sources,
                                    main_sources)
    /\ pc' = "build"
    /\ UNCHANGED <<options, i, num_lib_files, obj_sources, lib_sources,
                   main_sources, dirs, files, toolLog, raised, exitCode>>

\* subprocess.run(cmd): the tool's exit status is returned and dropped by the
\* callers; a command that cannot be started raises
subprocess_run(tool, next) ==
    \/ \E rc \in 0..MaxExit :
          /\ toolLog' = Append(toolLog, [tool |-> tool, rc |-> rc])
          /\ pc' = next
          /\ UNCHANGED <<raised, exitCode>>
    \/ /\ Raise("FileNotFoundError")
       /\ UNCHANGED toolLog

build ==
    /\ pc = "build"
    /\ IF options.build
       THEN subprocess_run("ninja", "run_gdb")
       ELSE /\ pc' = "run_gdb"
            /\ UNCHANGED <<toolLog, raised, exitCode>>
    /\ UNCHANGED <<options, i, num_lib_files, obj_sources, lib_sources,
                   main_sources, dirs, files, ninja>>

run_gdb ==
    /\ pc = "run_gdb"
    /\ IF "gdb" \in options.run
       THEN subprocess_run("gdb", "run_lldb")
       ELSE /\ pc' = "run_lldb"
            /\ UNCHANGED <<toolLog, raised, exitCode>>
    /\ UNCHANGED <<options, i, num_lib_files, obj_sources, lib_sources,
                   main_sources, dirs, files, ninja>>

run_lldb ==
    /\ pc = "run_lldb"
    /\ IF "lldb" \in options.run
       THEN subprocess_run("lldb", "stats")
       ELSE /\ pc' = "stats"
            /\ UNCHANGED <<toolLog, raised, exitCode>>
    /\ UNCHANGED <<options, i, num_lib_files, obj_sources, lib_sources,
                   main_sources, dirs, files, ninja>>

\* stats lists the bin, obj and lib directories; os.listdir raises when the
\* directory does not exist
stats ==
    /\ pc = "stats"
    /\ IF options.stats /\ ~({"bin", "obj", "lib"} \subseteq dirs)
       THEN Raise("FileNotFoundError")
       ELSE /\ pc' = "done"
            /\ UNCHANGED <<raised, exitCode>>
    /\ UNCHANGED <<options, i, num_lib_files, obj_sources, lib_sources,
                   main_sources, dirs, files, ninja, toolLog>>

Next ==
    \/ create_output_dirs
    \/ skip_generate
    \/ generate_obj_source_file
    \/ generate_lib_source_files
    \/ generate_lib_source_file
    \/ generate_main_source_file
    \/ generate_ninja_file
    \/ build
    \/ run_gdb
    \/ run_lldb
    \/ stats

Spec == Init /\ [][Next]_vars

\* ------------------------------------------------------------- properties
LeafCount == options.count_of_leaf_source_files
Capacity  == options.library_object_count
ValidConfig == LeafCount >= 0 /\ Capacity >= 1

\* n is ceil(LeafCount / Capacity), stated without a division
IsCeil(n) ==
    /\ n >= 0
    /\ n * Capacity >= LeafCount
    /\ n > 0 => (n - 1) * Capacity < LeafCount

\* number of decimal digits of n >= 0, stated without a conversion
IsWidth(w, n) == w >= 1 /\ n < 10^w /\ (w > 1 => n >= 10^(w - 1))
\* the widths that counts up to 99999 can have
Widths == 1..5

RECURSIVE DigitsValue(_)
\* the number a sequence of decimal digits denotes
DigitsValue(d) ==
    IF d = <<>> THEN 0
    ELSE 10 * DigitsValue(SubSeq(d, 1, Len(d) - 1)) + d[Len(d)]

\* lexical (dictionary) order of two digit strings
LexLess(a, b) ==
    \E k \in 1..(Len(b)) :
        /\ \A m \in 1..(k - 1) : m <= Len(a) /\ a[m] = b[m]
        /\ \/ k = Len(a) + 1
           \/ k <= Len(a) /\ a[k] < b[k]

Count(s, x) == Cardinality({m \in 1..Len(s) : s[m] = x})
Elems(s) == {s[m] : m \in 1..Len(s)}

GenerationDone == main_sources # <<>>
PlanWritten == ninja # <<>>

LeafUnit(k) == files[obj_sources[k + 1]]
LibUnit(j)  == files[lib_sources[j + 1]]
RootUnit    == files[main_sources[1]]

IsCc(e)      == e.kind = "build" /\ e.rule = "cc"
IsArchive(e) == e.kind = "build" /\ e.rule = "archive"
IsLink(e)    == e.kind = "build" /\ e.rule = "link"
IsDefault(e) == e.kind = "default"
CcEdges      == SelectSeq(ninja, IsCc)
ArchiveEdges == SelectSeq(ninja, IsArchive)
LinkEdges    == SelectSeq(ninja, IsLink)
\* the object files the plan compiles a source file to
CcOuts(src) ==
    {ninja[m].out : m \in {x \in 1..Len(ninja) :
                              IsCc(ninja[x]) /\ ninja[x].ins = <<src>>}}

\* C1: for a capacity >= 1 the ranges get_lib_src_indices(0..n-1), with
\* n = get_num_libraries_to_build, are non-empty, contiguous, disjoint, cover
\* exactly [0, leafCount), range j is [j*cap, min((j+1)*cap, leafCount)), and
\* n = ceil(leafCount / cap).
C1_PartitionCoversLeaves ==
    ValidConfig =>
        LET n == get_num_libraries_to_build(options)
            R(j) == get_lib_src_indices(options, j)
        IN  /\ IsCeil(n)
            /\ LeafCount = 0 => n = 0
            /\ \A j \in 0..(n - 1) :
                  /\ R(j)[1] = j * Capacity
                  /\ R(j)[2] = Min((j + 1) * Capacity, LeafCount)
                  /\ R(j)[1] < R(j)[2]
                  /\ R(j)[1] >= 0 /\ R(j)[2] <= LeafCount
            /\ \A j \in 0..(n - 2) : R(j)[2] = R(j + 1)[1]
            /\ \A k \in 0..(LeafCount - 1) :
                  Cardinality({j \in 0..(n - 1) : R(j)[1] <= k /\ k < R(j)[2]}) = 1

\* the library loop has run over a partition with several groups, the last
\* one short
C1_Witness ==
    /\ ValidConfig
    /\ pc = "gen_lib"
    /\ num_lib_files >= 3
    /\ i = num_lib_files
    /\ LeafCount % Capacity # 0
    /\ Len(lib_sources) = num_lib_files

\* C2 (as claimed): with capacity 0 and generation enabled the run ends in a
\* configuration error and nothing has been written when it is raised.
C2_NothingWrittenBeforeZeroCapacityError ==
    (Capacity = 0 /\ options.generate) =>
        /\ pc = "done" => raised = "ZeroDivisionError"
        /\ raised # "" => DOMAIN files = {} /\ ninja = <<>>

C4_EveryLeafReachedOnce ==
    (ValidConfig /\ GenerationDone) =>
        LET n == Len(lib_sources)
            Leaves == 0..(LeafCount - 1)
            Libs   == 0..(n - 1)
        IN  /\ Len(obj_sources) = LeafCount
            /\ IsCeil(n)
            /\ Cardinality(DOMAIN files) = LeafCount + n + 1
            /\ \A k \in Leaves :
                  /\ Cardinality({j \in Libs :
                        Count(LibUnit(j).decls, LeafUnit(k).defines) > 0}) = 1
                  /\ \A j \in Libs :
                        /\ Count(LibUnit(j).decls, LeafUnit(k).defines) <= 1
                        /\ Count(LibUnit(j).calls, LeafUnit(k).defines)
                             = Count(LibUnit(j).decls, LeafUnit(k).defines)
                  /\ \A k2 \in Leaves :
                        LeafUnit(k).defines = LeafUnit(k2).defines => k = k2
            /\ \A j \in Libs :
                  LET s == j * Capacity
                      e == Min((j + 1) * Capacity, LeafCount)
                      own == {LeafUnit(k).defines : k \in s..(e - 1)}
                  IN  /\ Elems(LibUnit(j).decls) = own
                      /\ Elems(LibUnit(j).calls) = own
                      /\ Len(LibUnit(j).decls) = e - s
                      /\ Len(LibUnit(j).calls) = e - s
                      /\ Count(RootUnit.decls, LibUnit(j).defines) = 1
                      /\ Count(RootUnit.calls, LibUnit(j).defines) = 1
                      /\ \A j2 \in Libs :
                            LibUnit(j).defines = LibUnit(j2).defines => j = j2
            /\ Len(RootUnit.decls) = n
            /\ Len(RootUnit.calls) = n

\* generation ended with several libraries, the last one short, and leaf
\* names wider than library names
C4_Witness ==
    /\ ValidConfig
    /\ GenerationDone
    /\ Len(lib_sources) >= 3
    /\ LeafCount % Capacity # 0
    /\ Len(RootUnit.calls) = Len(lib_sources)
    /\ Len(LibUnit(0).decls) = Capacity
    /\ Len(LeafUnit(0).defines.num) > Len(LibUnit(0).defines.num)

\* C5: with a capacity >= 1 the plan has exactly one archive edge per
\* partition j; its output is lib_<j on the library width>.a and its inputs
\* are the objects of the leaves of partition j, in index order, then the
\* object of library unit j; every leaf object is an input of exactly one
\* archive edge.
C5_OneArchiveEdgePerPartition ==
    (ValidConfig /\ PlanWritten) =>
        LET n == Len(lib_sources)
            ar == ArchiveEdges
        IN  /\ IsCeil(n)
            /\ Len(ar) = n
            /\ \A w \in Widths : IsWidth(w, n) =>
                  \A j \in 0..(n - 1) :
                      ar[j + 1].out = [dir |-> "lib", prefix |-> "lib",
                                       num |-> ZeroPad(j, w), ext |-> "a"]
            /\ \A j \in 0..(n - 1) :
                  LET s == j * Capacity
                      e == Min((j + 1) * Capacity, LeafCount)
                  IN  /\ Len(ar[j + 1].ins) = (e - s) + 1
                      /\ \A m \in 1..(e - s) :
                            CcOuts(obj_sources[s + m]) = {ar[j + 1].ins[m]}
                      /\ CcOuts(lib_sources[j + 1]) = {ar[j + 1].ins[e - s + 1]}
            /\ \A k \in 0..(LeafCount - 1) :
                  Cardinality({jm \in (1..Len(ar)) \X (1..(Capacity + 1)) :
                      /\ jm[2] <= Len(ar[jm[1]].ins)
                      /\ {ar[jm[1]].ins[jm[2]]} = CcOuts(obj_sources[k + 1])}) = 1

\* the plan was written for several partitions, the last one short
C5_Witness ==
    /\ ValidConfig
    /\ PlanWritten
    /\ Len(ArchiveEdges) >= 3
    /\ LeafCount % Capacity # 0
    /\ Len(ArchiveEdges[1].ins) = Capacity + 1
    /\ Len(ArchiveEdges[Len(ArchiveEdges)].ins) < Capacity + 1

\* C6: with a capacity >= 1 the plan has exactly one link edge; its output is
\* the executable, its inputs are the root object then the library artifacts
\* 0..n-1 in partition order; the executable is the default target. With no
\* leaves only the root unit exists and the link edge lists only its object.
C6_OneLinkEdge ==
    (ValidConfig /\ PlanWritten) =>
        LET n == Len(lib_sources)
            exe == [dir |-> "bin", prefix |-> "lod", num |-> <<>>, ext |-> ""]
        IN  /\ IsCeil(n)
            /\ Len(LinkEdges) = 1
            /\ LinkEdges[1].out = exe
            /\ Len(LinkEdges[1].ins) = n + 1
            /\ CcOuts(main_sources[1]) = {LinkEdges[1].ins[1]}
            /\ Len(ArchiveEdges) = n
            /\ \A j \in 1..n : LinkEdges[1].ins[j + 1] = ArchiveEdges[j].out
            /\ \A w \in Widths : IsWidth(w, n) =>
                  \A j \in 0..(n - 1) :
                      LinkEdges[1].ins[j + 2] =
                          [dir |-> "lib", prefix |-> "lib",
                           num |-> ZeroPad(j, w), ext |-> "a"]
            /\ Len(SelectSeq(ninja, IsDefault)) = 1
            /\ ninja[Len(ninja)] = [kind |-> "default", rule |-> "",
                                    out |-> exe, ins |-> <<>>]
            /\ LeafCount = 0 =>
                  /\ obj_sources = <<>>
                  /\ lib_sources = <<>>
                  /\ DOMAIN files = {main_sources[1]}
                  /\ RootUnit.calls = <<>>
                  /\ Len(LinkEdges[1].ins) = 1

\* the plan was written for several libraries
C6_Witness ==
    /\ ValidConfig
    /\ PlanWritten
    /\ Len(lib_sources) >= 3
    /\ Len(LinkEdges[1].ins) = Len(lib_sources) + 1

\* the plan was written for no leaf at all
C6_WitnessNoLeaf ==
    /\ ValidConfig
    /\ PlanWritten
    /\ LeafCount = 0
    /\ Len(LinkEdges[1].ins) = 1

\* C7: with leafCount >= 1 and a capacity >= 1, the generated leaf
\* identifiers have exactly len(str(leafCount)) digits and the library
\* identifiers exactly len(str(libraryCount)) digits, identifier k denotes k,
\* the identifiers of a kind are pairwise distinct and their lexical order is
\* the numeric order of their indices.
C7_PaddedIdentifiersOrdered ==
    (ValidConfig /\ LeafCount >= 1 /\ PlanWritten) =>
        LET n == Len(lib_sources)
            leafId(k) == LeafUnit(k).defines.num
            libId(j)  == LibUnit(j).defines.num
            arId(j)   == ArchiveEdges[j + 1].out.num
        IN  /\ n >= 1
            /\ IsCeil(n)
            /\ Len(obj_sources) = LeafCount
            /\ Len(ArchiveEdges) = n
            /\ \A k \in 0..(LeafCount - 1) :
                  /\ IsWidth(Len(leafId(k)), LeafCount)
                  /\ DigitsValue(leafId(k)) = k
                  /\ obj_sources[k + 1].num = leafId(k)
                  /\ \A k2 \in 0..(LeafCount - 1) :
                        /\ k # k2 => leafId(k) # leafId(k2)
                        /\ k < k2 <=> LexLess(leafId(k), leafId(k2))
            /\ \A j \in 0..(n - 1) :
                  /\ IsWidth(Len(libId(j)), n)
                  /\ DigitsValue(libId(j)) = j
                  /\ arId(j) = libId(j)
                  /\ \A j2 \in 0..(n - 1) :
                        /\ j # j2 => libId(j) # libId(j2)
                        /\ j < j2 <=> LexLess(libId(j), libId(j2))

\* two-digit leaf and library identifiers were generated
C7_Witness ==
    /\ ValidConfig
    /\ PlanWritten
    /\ LeafCount >= 11
    /\ Len(lib_sources) >= 11
    /\ LeafUnit(2).defines.num = <<0, 2>>
    /\ LibUnit(10).defines.num = <<1, 0>>

\* C8 (as claimed): with a negative capacity and generation enabled the run
\* does not complete normally and nothing is written.
C8_NegativeCapacityFailsFast ==
    (Capacity < 0 /\ options.generate) =>
        /\ pc = "done" => raised # ""
        /\ DOMAIN files = {}
        /\ ninja = <<>>

\* C9: with a capacity >= 1 the plan has one compile edge per generated unit
\* (leafCount + libraryCount + 1), in generation order (leaves, libraries,
\* root), with pairwise distinct object paths, and every object file that an
\* archive or link edge takes as input is the output of exactly one compile
\* edge.
C9_OneCompileEdgePerUnit ==
    (ValidConfig /\ PlanWritten) =>
        LET n == Len(lib_sources)
            cc == CcEdges
            units == obj_sources \o lib_sources \o main_sources
        IN  /\ IsCeil(n)
            /\ Len(obj_sources) = LeafCount
            /\ Len(cc) = LeafCount + n + 1
            /\ Len(cc) = Cardinality(DOMAIN files)
            /\ \A m \in 1..Len(cc) :
                  /\ m <= Len(units)
                  /\ cc[m].ins = <<units[m]>>
                  /\ units[m] \in DOMAIN files
                  /\ cc[m].out.dir = "obj"
                  /\ cc[m].out.ext = "o"
                  /\ cc[m].out.prefix = units[m].prefix
                  /\ cc[m].out.num = units[m].num
                  /\ \A m2 \in 1..Len(cc) : cc[m].out = cc[m2].out => m = m2
            /\ \A x \in 1..Len(ninja) :
                  (IsArchive(ninja[x]) \/ IsLink(ninja[x])) =>
                      \A y \in 1..Len(ninja[x].ins) :
                          ninja[x].ins[y].dir = "obj" =>
                              Cardinality({m \in 1..Len(cc) :
                                  cc[m].out = ninja[x].ins[y]}) = 1
            /\ \A x \in 1..Len(ninja) :
                  IsArchive(ninja[x]) =>
                      \A y \in 1..Len(ninja[x].ins) : ninja[x].ins[y].dir = "obj"
            /\ \E x \in 1..Len(ninja) :
                  IsLink(ninja[x]) /\ ninja[x].ins[1].dir = "obj"

\* the plan was written for several leaves and libraries
C9_Witness ==
    /\ ValidConfig
    /\ PlanWritten
    /\ Len(lib_sources) >= 3
    /\ Len(CcEdges) = LeafCount + Len(lib_sources) + 1
    /\ CcEdges[Len(CcEdges)].ins[1].prefix = "main"

\* C10 (as claimed): when an external tool exited with a non-zero status the
\* process ends with a non-zero exit code.
C10_ToolFailureGivesNonZeroExit ==
    (pc = "done" /\ \E m \in 1..Len(toolLog) : toolLog[m].rc # 0) =>
        exitCode # 0

====
